---- MODULE Spec2Model ----
(***************************************************************************)
(* Application controllers of cogent.app for the Vienna RNA package        *)
(* (RNAfold, RNAplot and their helpers) and for the cove package (Covet,   *)
(* Coves, Covee, Covea).                                                   *)
(*                                                                         *)
(* A Python string is a sequence of atoms.  An atom is one character of    *)
(* Chars, or one string literal of the source ("_ss", ".ps", "rna", ...)   *)
(* kept whole; s + t is s \o t.  No literal can be spelled with Chars, so  *)
(* two strings are equal exactly when their sequences are.                 *)
(***************************************************************************)
EXTENDS Integers, Sequences, FiniteSets, TLC

VARIABLES
    app,    \* the application instance: its tool, parameters and attributes
    last,   \* the operation performed last: its arguments and what it returned
    frame   \* the helper function being executed: its line and its locals

vars == <<app, last, frame>>

----------------------------------------------------------------------------
(* Bounds *)

\* longest record (in characters) of an input list
MaxLen == 2
\* longest input list
MaxRecords == 2

\* '>' is the name marker, "\n" the line terminator, "a" any other character
Chars == {">", "\n", "a"}

\* every string of at most n characters of cs
StrOf(cs, n) == UNION {[1..k -> cs] : k \in 0..n}

Records == StrOf(Chars, MaxLen)

\* every list of at most MaxRecords records
DataLists == UNION {[1..k -> Records] : k \in 0..MaxRecords}

----------------------------------------------------------------------------
(* Python built-ins used by the controllers *)

startswith(s, c) == Len(s) > 0 /\ s[1] = c

RECURSIVE lstrip(_, _)
lstrip(s, cs) ==
    IF Len(s) > 0 /\ s[1] \in cs THEN lstrip(Tail(s), cs) ELSE s

RECURSIVE rstrip(_, _)
rstrip(s, cs) ==
    IF Len(s) > 0 /\ s[Len(s)] \in cs
    THEN rstrip(SubSeq(s, 1, Len(s) - 1), cs)
    ELSE s

\* str.strip(chars): removes EVERY leading and trailing character of chars
strip(s, cs) == rstrip(lstrip(s, cs), cs)

\* d[k] = v on a dict
Put(d, k, v) == [x \in (DOMAIN d) \cup {k} |-> IF x = k THEN v ELSE d[x]]

EmptyDict == [x \in {} |-> TRUE]

\* a value returned, or an exception raised
Return(v) == [ok |-> TRUE, val |-> v]
Raise(e) == [ok |-> FALSE, exc |-> e]

----------------------------------------------------------------------------
(* cogent.app.util / cogent.app.parameters, as far as the controllers use  *)
(* them                                                                    *)

\* ResultPath(Path, IsWritten=True)
ResultPath(Path, IsWritten) == [Path |-> Path, IsWritten |-> IsWritten]

\* a parameter is off, on without a value, or on with a value
Off == [on |-> FALSE, Value |-> "None"]
On(v) == [on |-> TRUE, Value |-> v]
isOn(p) == p.on

----------------------------------------------------------------------------
(* vienna_package.py *)

FILETYPE_TO_EXTENSION ==
    [ft \in {"ps", "gml", "svg", "xrna"} |->
        CASE ft = "ps" -> ".ps"
          [] ft = "gml" -> ".gml"
          [] ft = "svg" -> ".svg"
          [] ft = "xrna" -> ".ss"]

\* values a caller may give '-o': the four keywords and one that is none
OutputFormats == (DOMAIN FILETYPE_TO_EXTENSION) \cup {"pdf"}

\* RNAfold(params): '-p' is a MixedParameter with Value=False, so it is off
NewRNAfold ==
    [tool |-> "RNAfold", WorkingDir |-> <<"wd/">>,
     Parameters |-> [f \in {"-p", "-C"} |-> Off]]

\* RNAplot(params): '-o' is a ValuedParameter without a value, so it is off
NewRNAplot ==
    [tool |-> "RNAplot", WorkingDir |-> <<"wd/">>,
     Parameters |-> [f \in {"-o"} |-> Off]]

\* RNAfoldScan with the '-p' condition of the dot plot left out
RECURSIVE RNAfoldScanDpDefault(_, _, _, _)
RNAfoldScanDpDefault(self, data, i, acc) ==
    IF i > Len(data) THEN acc
    ELSE LET item == data[i] IN
         IF startswith(item, ">")
         THEN LET name == strip(item, {">", "\n"})
                  r1 == Put(acc.result, name \o <<"_ss">>,
                            ResultPath(self.WorkingDir \o name \o <<"_ss", ".ps">>, TRUE))
                  r2 == Put(r1, name \o <<"_dp">>,
                            ResultPath(self.WorkingDir \o name \o <<"_dp", ".ps">>, TRUE))
              IN RNAfoldScanDpDefault(self, data, i + 1,
                     [result |-> r2, name_counter |-> acc.name_counter + 1,
                      seq_counter |-> acc.seq_counter])
         ELSE RNAfoldScanDpDefault(self, data, i + 1,
                     [result |-> acc.result, name_counter |-> acc.name_counter,
                      seq_counter |-> acc.seq_counter + 1])

\* the loop of RNAfold._get_result_paths over data[i..]
RECURSIVE RNAfoldScan(_, _, _, _)
RNAfoldScan(self, data, i, acc) ==
    IF i > Len(data) THEN acc
    ELSE LET item == data[i] IN
         IF startswith(item, ">")
         THEN LET name == strip(item, {">", "\n"})
                  r1 == Put(acc.result, name \o <<"_ss">>,
                            ResultPath(self.WorkingDir \o name \o <<"_ss", ".ps">>, TRUE))
                  r2 == Put(r1, name \o <<"_dp">>,
                            ResultPath(self.WorkingDir \o name \o <<"_dp", ".ps">>,
                                       isOn(self.Parameters["-p"])))
              IN RNAfoldScan(self, data, i + 1,
                     [result |-> r2, name_counter |-> acc.name_counter + 1,
                      seq_counter |-> acc.seq_counter])
         ELSE RNAfoldScan(self, data, i + 1,
                     [result |-> acc.result, name_counter |-> acc.name_counter,
                      seq_counter |-> acc.seq_counter + 1])

\* RNAfold._get_result_paths with the default group tagged by seq_counter alone
RNAfold_get_result_pathsAnyAnonymous(self, data) ==
    LET s == RNAfoldScan(self, data, 1,
                 [result |-> EmptyDict, name_counter |-> 0, seq_counter |-> 0])
        r1 == Put(s.result, <<"SS">>,
                  ResultPath(self.WorkingDir \o <<"rna", ".ps">>, s.seq_counter > 0))
        r2 == Put(r1, <<"DP">>,
                  ResultPath(self.WorkingDir \o <<"dot", ".ps">>,
                             isOn(self.Parameters["-p"]) /\ s.seq_counter > 0))
    IN Return(r2)

\* data is a list of records (a file name is first read into one, line 83)
RNAfold_get_result_paths(self, data) ==
    LET s == RNAfoldScan(self, data, 1,
                 [result |-> EmptyDict, name_counter |-> 0, seq_counter |-> 0])
        r1 == Put(s.result, <<"SS">>,
                  ResultPath(self.WorkingDir \o <<"rna", ".ps">>,
                             s.seq_counter - s.name_counter > 0))
        r2 == Put(r1, <<"DP">>,
                  ResultPath(self.WorkingDir \o <<"dot", ".ps">>,
                             isOn(self.Parameters["-p"])
                             /\ s.seq_counter - s.name_counter > 0))
    IN Return(r2)

\* RNAplot._get_outfile_extension reading the table with a default
RNAplot_get_outfile_extensionFallback(self) ==
    IF ~isOn(self.Parameters["-o"])
    THEN Return(<<".ps">>)
    ELSE IF self.Parameters["-o"].Value \in DOMAIN FILETYPE_TO_EXTENSION
         THEN Return(<<FILETYPE_TO_EXTENSION[self.Parameters["-o"].Value]>>)
         ELSE Return(<<".ps">>)

\* with '-o' on, line 267 makes a path of the value (self._absolute) and line
\* 268 looks the bare name FILETYPE_TO_EXTENSION up in the module's globals,
\* where it is not: a class attribute is out of scope in a method body, so
\* the lookup raises NameError before the table is indexed, whatever the value
RNAplot_get_outfile_extension(self) ==
    IF ~isOn(self.Parameters["-o"])
    THEN Return(<<".ps">>)
    ELSE Raise("NameError")

\* the loop of RNAplot._get_result_paths over data[i..]
RECURSIVE RNAplotScan(_, _, _, _, _)
RNAplotScan(self, data, i, res_extension, acc) ==
    IF i > Len(data) THEN acc
    ELSE LET item == data[i] IN
         IF startswith(item, ">")
         THEN LET name == strip(item, {">", "\n"})
                  r1 == Put(acc.result, name \o <<"_ss">>,
                            ResultPath(self.WorkingDir \o name \o <<"_ss">>
                                       \o res_extension, TRUE))
              IN RNAplotScan(self, data, i + 1, res_extension,
                     [result |-> r1, name_counter |-> acc.name_counter + 1,
                      seq_counter |-> acc.seq_counter])
         ELSE RNAplotScan(self, data, i + 1, res_extension,
                     [result |-> acc.result, name_counter |-> acc.name_counter,
                      seq_counter |-> acc.seq_counter + 1])

RNAplot_get_result_paths(self, data) ==
    LET ext == RNAplot_get_outfile_extension(self) IN
    IF ~ext.ok THEN ext
    ELSE LET s == RNAplotScan(self, data, 1, ext.val,
                      [result |-> EmptyDict, name_counter |-> 0, seq_counter |-> 0])
         IN IF (s.seq_counter \div 2) - s.name_counter > 0
            THEN Return(Put(s.result, <<"SS">>,
                            ResultPath(self.WorkingDir \o <<"rna">> \o ext.val, TRUE)))
            ELSE Return(s.result)

----------------------------------------------------------------------------
(* The controllers as a state machine: one application instance, and the   *)
(* record of the operation performed last                                  *)

NoFrame == [fn |-> "None", pc |-> "None"]

InitVienna ==
    /\ app \in {NewRNAfold, NewRNAplot}
    /\ last = [op |-> "new", self |-> app]
    /\ frame = NoFrame

\* RNAfold(...) or RNAplot(...)
Construct ==
    \E a \in {NewRNAfold, NewRNAplot} :
        /\ app' = a
        /\ last' = [op |-> "new", self |-> a]
        /\ UNCHANGED frame

\* app.Parameters[flag].on(value)
ParameterOn ==
    \E f \in DOMAIN app.Parameters :
      \E v \in IF f = "-o" THEN OutputFormats ELSE {"None"} :
        /\ app' = [app EXCEPT !.Parameters[f] = On(v)]
        /\ last' = [op |-> "on", self |-> app']
        /\ UNCHANGED frame

\* app.Parameters[flag].off()
ParameterOff ==
    \E f \in DOMAIN app.Parameters :
        /\ isOn(app.Parameters[f])
        /\ app' = [app EXCEPT !.Parameters[f] = Off]
        /\ last' = [op |-> "off", self |-> app']
        /\ UNCHANGED frame

\* `last` only records; the instance decides what an operation does.  An
\* operation on a list follows one that took none (every instance state has
\* such a predecessor), which keeps the record from multiplying the lists.
Returned == last.op = "_get_result_paths"

\* app._get_result_paths(data) on an RNAfold instance
RNAfoldGetResultPaths ==
    /\ ~Returned
    /\ app.tool = "RNAfold"
    /\ \E data \in DataLists :
        last' = [op |-> "_get_result_paths", self |-> app, data |-> data,
                 ret |-> RNAfold_get_result_paths(app, data)]
    /\ UNCHANGED <<app, frame>>

\* app._get_result_paths(data) on an RNAplot instance
RNAplotGetResultPaths ==
    /\ ~Returned
    /\ app.tool = "RNAplot"
    /\ \E data \in DataLists :
        last' = [op |-> "_get_result_paths", self |-> app, data |-> data,
                 ret |-> RNAplot_get_result_paths(app, data)]
    /\ UNCHANGED <<app, frame>>

Next ==
    \/ Construct
    \/ ParameterOn
    \/ ParameterOff
    \/ RNAfoldGetResultPaths
    \/ RNAplotGetResultPaths

Spec == InitVienna /\ [][Next]_vars

----------------------------------------------------------------------------
(* cove.py *)

\* records of the cove tools: "\n" is the line terminator, "a" any other character
CoveRecords == StrOf({"a", "\n"}, MaxLen)

\* data a cove controller is given: a list of records, or a string (a file name)
CoveListData == {[kind |-> "list", v |-> l] :
                    l \in UNION {[1..k -> CoveRecords] : k \in 0..MaxRecords}}
CoveStrData == {[kind |-> "str", v |-> f] : f \in {<<"f">>, <<"a", "a">>}}

None == <<"None">>

\* Covet(InputHandler=...), Coves(...), Covee(...), Covea(...)
NewCove(tool, handler) ==
    [tool |-> tool, InputHandler |-> handler, _input_filename |-> None,
     WorkingDir |-> <<"wd/">>]

\* self.getTmpFilename(dir): a random name in dir
getTmpFilename(dir) == {dir \o <<t>> : t \in {"tmp1", "tmp2"}}

\* sep.join(list)
RECURSIVE join(_, _)
join(sep, l) ==
    IF Len(l) = 0 THEN << >>
    ELSE IF Len(l) = 1 THEN l[1]
    ELSE l[1] \o sep \o join(sep, Tail(l))

\* `for d in data`: the items of a list, the characters of a string
Items(data) ==
    IF data.kind = "list" THEN data.v
    ELSE [i \in 1..Len(data.v) |-> <<data.v[i]>>]

\* file.readlines(): the lines of a text, each with its terminator
RECURSIVE readlines(_, _)
readlines(text, line) ==
    IF Len(text) = 0
    THEN IF Len(line) = 0 THEN << >> ELSE <<line>>
    ELSE IF text[1] = "\n"
         THEN <<line \o <<"\n">>>> \o readlines(Tail(text), << >>)
         ELSE readlines(Tail(text), line \o <<text[1]>>)

\* what an adapter leaves behind: its return value, the instance, the file written
Adapted(ret, self, file) == [ret |-> ret, self |-> self, file |-> file]
NoFile == [name |-> None, text |-> << >>]

\* CommandLineApplication._input_as_string
Base_input_as_string(data) == data.v

\* CommandLineApplication._input_as_lines: the records to a fresh temp file,
\* one per line, the last one terminated too; the file name is the token
Base_input_as_lines(self, data, filename) ==
    Adapted(Return(filename),
            [self EXCEPT !._input_filename = filename],
            [name |-> filename,
             text |-> join(<<"\n">>, [i \in DOMAIN Items(data) |->
                                         strip(Items(data)[i], {"\n"})])
                      \o <<"\n">>])

\* Covet._input_as_string, Coves._input_as_string, Covee._input_as_string,
\* Covea._input_as_string: filename + '.cm' raises TypeError on a list
Cove_input_as_string(self, data) ==
    IF data.kind = "list"
    THEN Adapted(Raise("TypeError"), self, NoFile)
    ELSE Adapted(Return(join(<<" ">>, <<data.v \o <<".cm">>, Base_input_as_string(data)>>)),
                 self, NoFile)

\* Covet._input_as_lines without the closing write('\n')
Covet_input_as_linesNoNewline(self, data, filename) ==
    Adapted(Return(join(<<" ">>, <<filename \o <<".cm">>, filename>>)),
            [self EXCEPT !._input_filename = filename],
            [name |-> filename,
             text |-> join(<<"\n">>, [i \in DOMAIN Items(data) |->
                                         strip(Items(data)[i], {"\n"})])])

\* Covet._input_as_lines keeping the temp file name to itself
Covet_input_as_linesUntracked(self, data, filename) ==
    Adapted(Return(join(<<" ">>, <<filename \o <<".cm">>, filename>>)),
            self,
            [name |-> filename,
             text |-> join(<<"\n">>, [i \in DOMAIN Items(data) |->
                                         strip(Items(data)[i], {"\n"})])
                      \o <<"\n">>])

\* Covet._input_as_lines; filename is what getTmpFilename returned
Covet_input_as_lines(self, data, filename) ==
    Adapted(Return(join(<<" ">>, <<filename \o <<".cm">>, filename>>)),
            [self EXCEPT !._input_filename = filename],
            [name |-> filename,
             text |-> join(<<"\n">>, [i \in DOMAIN Items(data) |->
                                         strip(Items(data)[i], {"\n"})])
                      \o <<"\n">>])

\* Covee._input_as_lines, Covea._input_as_lines: data + '.cm' raises TypeError
\* on a list before the base adapter runs; ''.join puts no separator
Covee_input_as_lines(self, data, filename) ==
    IF data.kind = "list"
    THEN Adapted(Raise("TypeError"), self, NoFile)
    ELSE LET b == Base_input_as_lines(self, data, filename)
         IN Adapted(Return(data.v \o <<".cm">> \o b.ret.val), b.self, b.file)

\* the adapter a tool answers to under each handler name
InputHandlers == {"_input_as_string", "_input_as_lines"}

Adapt(self, handler, data, filename) ==
    IF handler = "_input_as_string" THEN Cove_input_as_string(self, data)
    ELSE CASE self.tool = "Covet" -> Covet_input_as_lines(self, data, filename)
           [] self.tool = "Coves" -> Base_input_as_lines(self, data, filename)
           [] OTHER -> Covee_input_as_lines(self, data, filename)

\* Covet._get_result_paths: ''.join([None]) raises TypeError
Covet_get_result_paths(self, data) ==
    IF data.kind = "list" /\ self._input_filename = None
    THEN Raise("TypeError")
    ELSE LET inputPath == IF data.kind # "list" THEN data.v
                          ELSE self._input_filename
             r1 == Put(EmptyDict, <<"cm">>, ResultPath(inputPath \o <<".cm">>, TRUE))
         IN IF self._input_filename # None
            THEN Return(Put(r1, <<"_input_filename">>,
                            ResultPath(self._input_filename, TRUE)))
            ELSE Return(r1)

\* CommandLineApplication.__call__ on a Covet: the handler named by
\* InputHandler adapts the data, the command runs, the paths are resolved
Covet__call__(self, data, filename) ==
    LET a == Adapt(self, self.InputHandler, data, filename) IN
    IF ~a.ret.ok
    THEN [self |-> a.self, input_arg |-> a.ret, resolved |-> FALSE, ret |-> a.ret,
          file |-> a.file]
    ELSE [self |-> a.self, input_arg |-> a.ret, resolved |-> TRUE,
          ret |-> Covet_get_result_paths(a.self, data), file |-> a.file]

----------------------------------------------------------------------------
(* The cove controllers as a state machine *)

CoveTools == {"Covet", "Coves", "Covee", "Covea"}

InitCove ==
    /\ app \in {NewCove(t, h) : t \in CoveTools, h \in InputHandlers}
    /\ last = [op |-> "new", self |-> app]
    /\ frame = NoFrame

\* Covet(...), Coves(...), Covee(...), Covea(...)
CoveConstruct ==
    \E t \in CoveTools, h \in InputHandlers :
        /\ app' = NewCove(t, h)
        /\ last' = [op |-> "new", self |-> app']
        /\ UNCHANGED frame

\* `last` only records; the instance decides what an operation does.  An
\* operation on a list follows one on a string (every instance state has such
\* a predecessor), which keeps the record from multiplying the lists.
CoveReturned == "data" \in DOMAIN last /\ last.data.kind = "list"

\* app._input_as_string(data)
DoInputAsString(data) ==
    LET a == Cove_input_as_string(app, data) IN
    /\ app' = a.self
    /\ last' = [op |-> "_input_as_string", self |-> app, data |-> data,
                ret |-> a.ret, file |-> a.file]
    /\ UNCHANGED frame

InputAsString ==
    \/ \E data \in CoveStrData : DoInputAsString(data)
    \/ ~CoveReturned /\ \E data \in CoveListData : DoInputAsString(data)

\* app._input_as_lines(data)
DoInputAsLines(data) ==
    \E filename \in getTmpFilename(app.WorkingDir) :
        LET a == Adapt(app, "_input_as_lines", data, filename) IN
        /\ app' = a.self
        /\ last' = [op |-> "_input_as_lines", self |-> app, data |-> data,
                    ret |-> a.ret, file |-> a.file]
        /\ UNCHANGED frame

InputAsLines ==
    \/ \E data \in CoveStrData : DoInputAsLines(data)
    \/ ~CoveReturned /\ \E data \in CoveListData : DoInputAsLines(data)

\* app(data) on a Covet
DoCovetCall(data) ==
    \E filename \in getTmpFilename(app.WorkingDir) :
        LET c == Covet__call__(app, data, filename) IN
        /\ app' = c.self
        /\ last' = [op |-> "__call__", self |-> app, data |-> data,
                    input_arg |-> c.input_arg, resolved |-> c.resolved,
                    at |-> c.self, ret |-> c.ret, file |-> c.file]
        /\ UNCHANGED frame

CovetCall ==
    /\ app.tool = "Covet"
    /\ \/ \E data \in CoveStrData : DoCovetCall(data)
       \/ ~CoveReturned /\ \E data \in CoveListData : DoCovetCall(data)

NextCove ==
    \/ CoveConstruct
    \/ InputAsString
    \/ InputAsLines
    \/ CovetCall

SpecCove == InitCove /\ [][NextCove]_vars

----------------------------------------------------------------------------
(* The helper functions of vienna_package.py, line by line *)

\* sequences and structures a helper is given
SeqStrings == StrOf({"a"}, MaxLen)
StructStrings == StrOf({"."}, MaxLen)

\* the names a caller gives a sequence, or None
SeqNames == StrOf(Chars, MaxLen) \cup {None}

\* RNAplot._get_tmp_seqname: 'tmp' and nine characters picked at random
TmpNameLen == 9
RNAplot_get_tmp_seqname == {<<"tmp">> \o s : s \in [1..TmpNameLen -> {"a"}]}

\* get_constrained_fold, lines 111-119, with the length check left out
get_constrained_fold_checkNoLength(sequence, constraint_string) ==
    IF Len(sequence) = 0 THEN Raise("ValueError")
    ELSE IF Len(constraint_string) = 0 THEN Raise("ValueError")
    ELSE Return(sequence)

\* get_constrained_fold, lines 111-119
get_constrained_fold_check(sequence, constraint_string) ==
    IF Len(sequence) = 0 THEN Raise("ValueError")
    ELSE IF Len(constraint_string) = 0 THEN Raise("ValueError")
    ELSE IF Len(sequence) # Len(constraint_string) THEN Raise("ValueError")
    ELSE Return(sequence)

\* plot_from_seq_and_struct, lines 312-316
plot_from_seq_and_struct_check(seq, struct) ==
    IF Len(seq) # Len(struct) THEN Raise("DataError") ELSE Return(seq)

NoApp == [tool |-> "None"]
NoRes == [ok |-> FALSE, exc |-> "None"]

\* a helper called: at its first line, nothing constructed, spawned or written
Enter(fn, pc, args) ==
    [fn |-> fn, pc |-> pc, args |-> args, app |-> NoApp, seqname |-> None,
     res |-> NoRes, stdout |-> "None", exc |-> "None",
     constructed |-> 0, spawned |-> 0, tmpfiles |-> 0, cleaned |-> 0]

Running(fn, pc) == frame.fn = fn /\ frame.pc = pc
Finished == frame.pc \in {"None", "raised", "returned"}

\* CommandLineApplication.__call__ inside a helper: the input goes to a temp
\* file, the command runs, the paths are resolved and the files tagged written
\* are opened; wrote says whether the tool wrote them
Helper__call__(f, paths, wrote, stdout, next) ==
    LET ran == [f EXCEPT !.tmpfiles = @ + 1, !.spawned = @ + 1] IN
    IF ~paths.ok THEN [ran EXCEPT !.pc = "raised", !.exc = paths.exc]
    ELSE IF ~wrote /\ \E k \in DOMAIN paths.val : paths.val[k].IsWritten
    THEN [ran EXCEPT !.pc = "raised", !.exc = "ApplicationError"]
    ELSE [ran EXCEPT !.pc = next, !.res = paths, !.stdout = stdout]

InitHelper ==
    /\ app = NoApp
    /\ last = [op |-> "None"]
    /\ frame = NoFrame

\* get_constrained_fold(sequence, constraint_string, params)
FoldEnter ==
    /\ Finished
    /\ \E sequence \in SeqStrings, constraint_string \in StructStrings,
          p \in BOOLEAN :
        frame' = Enter("get_constrained_fold", "111",
                       [sequence |-> sequence, constraint_string |-> constraint_string,
                        p |-> p])
    /\ UNCHANGED <<app, last>>

\* lines 111-119
FoldCheck ==
    /\ Running("get_constrained_fold", "111")
    /\ LET c == get_constrained_fold_check(frame.args.sequence,
                                           frame.args.constraint_string)
       IN frame' = IF c.ok THEN [frame EXCEPT !.pc = "120"]
                   ELSE [frame EXCEPT !.pc = "raised", !.exc = c.exc]
    /\ UNCHANGED <<app, last>>

\* lines 120-122: app = RNAfold(params=params); app.Parameters['-C'].on()
FoldNewApp ==
    /\ Running("get_constrained_fold", "120")
    /\ frame' = [frame EXCEPT
                   !.pc = "124",
                   !.constructed = @ + 1,
                   !.app = [NewRNAfold EXCEPT
                              !.Parameters["-p"] = IF frame.args.p THEN On("None") ELSE Off,
                              !.Parameters["-C"] = On("None")]]
    /\ UNCHANGED <<app, last>>

\* line 124: res = app([sequence, constraint_string])
FoldInvoke ==
    /\ Running("get_constrained_fold", "124")
    /\ \E wrote \in BOOLEAN, stdout \in {"structure", "empty"} :
        frame' = Helper__call__(frame,
                     RNAfold_get_result_paths(frame.app,
                         <<frame.args.sequence, frame.args.constraint_string>>),
                     wrote, stdout, "126")
    /\ UNCHANGED <<app, last>>

\* line 126: MinimalRnaalifoldParser(res['StdOut'].readlines())[0]
FoldParse ==
    /\ Running("get_constrained_fold", "126")
    /\ frame' = IF frame.stdout = "empty"
                THEN [frame EXCEPT !.pc = "raised", !.exc = "IndexError"]
                ELSE [frame EXCEPT !.pc = "128"]
    /\ UNCHANGED <<app, last>>

\* line 128: res.cleanUp()
FoldCleanUp ==
    /\ Running("get_constrained_fold", "128")
    /\ frame' = [frame EXCEPT !.pc = "130", !.cleaned = @ + 1]
    /\ UNCHANGED <<app, last>>

\* line 130: return seq, struct, energy
FoldReturn ==
    /\ Running("get_constrained_fold", "130")
    /\ frame' = [frame EXCEPT !.pc = "returned"]
    /\ UNCHANGED <<app, last>>

\* plot_from_seq_and_struct(seq, struct, seqname, params)
PlotEnter ==
    /\ Finished
    /\ \E seq \in SeqStrings, struct \in StructStrings, seqname \in SeqNames,
          o \in {Off} \cup {On(v) : v \in OutputFormats} :
        frame' = Enter("plot_from_seq_and_struct", "312",
                       [seq |-> seq, struct |-> struct, seqname |-> seqname, o |-> o])
    /\ UNCHANGED <<app, last>>

\* lines 312-316
PlotCheck ==
    /\ Running("plot_from_seq_and_struct", "312")
    /\ LET c == plot_from_seq_and_struct_check(frame.args.seq, frame.args.struct)
       IN frame' = IF c.ok THEN [frame EXCEPT !.pc = "317"]
                   ELSE [frame EXCEPT !.pc = "raised", !.exc = c.exc]
    /\ UNCHANGED <<app, last>>

\* lines 317-320: app = RNAplot(WorkingDir='/tmp', params=params); a seqname
\* of None becomes app._get_tmp_seqname()
PlotNewApp ==
    /\ Running("plot_from_seq_and_struct", "317")
    /\ \E tmpname \in RNAplot_get_tmp_seqname :
        frame' = [frame EXCEPT
                    !.pc = "321",
                    !.constructed = @ + 1,
                    !.app = [NewRNAplot EXCEPT !.WorkingDir = <<"/tmp/">>,
                                               !.Parameters["-o"] = frame.args.o],
                    !.seqname = IF frame.args.seqname = None THEN tmpname
                                ELSE frame.args.seqname]
    /\ UNCHANGED <<app, last>>

\* line 321: res = app(['>' + seqname, seq, struct])
PlotInvoke ==
    /\ Running("plot_from_seq_and_struct", "321")
    /\ \E wrote \in BOOLEAN :
        frame' = Helper__call__(frame,
                     RNAplot_get_result_paths(frame.app,
                         <<<<">">> \o frame.seqname, frame.args.seq, frame.args.struct>>),
                     wrote, "None", "322")
    /\ UNCHANGED <<app, last>>

\* line 322: plot = res[seqname + '_ss'].read()
PlotRead ==
    /\ Running("plot_from_seq_and_struct", "322")
    /\ frame' = IF frame.seqname \o <<"_ss">> \in DOMAIN frame.res.val
                THEN [frame EXCEPT !.pc = "323"]
                ELSE [frame EXCEPT !.pc = "raised", !.exc = "KeyError"]
    /\ UNCHANGED <<app, last>>

\* line 323: res.cleanUp()
PlotCleanUp ==
    /\ Running("plot_from_seq_and_struct", "323")
    /\ frame' = [frame EXCEPT !.pc = "324", !.cleaned = @ + 1]
    /\ UNCHANGED <<app, last>>

\* line 324: return plot
PlotReturn ==
    /\ Running("plot_from_seq_and_struct", "324")
    /\ frame' = [frame EXCEPT !.pc = "returned"]
    /\ UNCHANGED <<app, last>>

NextHelper ==
    \/ FoldEnter
    \/ FoldCheck
    \/ FoldNewApp
    \/ FoldInvoke
    \/ FoldParse
    \/ FoldCleanUp
    \/ FoldReturn
    \/ PlotEnter
    \/ PlotCheck
    \/ PlotNewApp
    \/ PlotInvoke
    \/ PlotRead
    \/ PlotCleanUp
    \/ PlotReturn

SpecHelper == InitHelper /\ [][NextHelper]_vars

----------------------------------------------------------------------------
(* The parameter catalogs and synonym tables of RNAfold and RNAsubopt *)

Flag == [kind |-> "Flag", default |-> Off]
Valued(v) == [kind |-> "Valued", default |-> IF v = "None" THEN Off ELSE On(v)]
Mixed(v) == [kind |-> "Mixed", default |-> IF v = "False" THEN Off ELSE On(v)]

\* RNAfold._parameters
RNAfold_parameters ==
    ("-p" :> Mixed("False")) @@ ("-C" :> Flag) @@ ("-T" :> Valued("37"))
    @@ ("-4" :> Flag) @@ ("-d" :> Mixed("1")) @@ ("-noLP" :> Flag)
    @@ ("-noGU" :> Flag) @@ ("-noCloseGU" :> Flag) @@ ("-e" :> Valued("None"))
    @@ ("-P" :> Valued("None")) @@ ("-nsp" :> Valued("None"))
    @@ ("-S" :> Valued("1.07"))

\* RNAfold._synonyms with 'Scale' sent to a flag the catalog does not have
RNAfold_synonymsWrongCase ==
    ("Temperature" :> "-T") @@ ("Temp" :> "-T") @@ ("Scale" :> "-s")

\* RNAfold._synonyms
RNAfold_synonyms ==
    ("Temperature" :> "-T") @@ ("Temp" :> "-T") @@ ("Scale" :> "-S")

\* RNAsubopt._parameters
RNAsubopt_parameters ==
    ("-p" :> Valued("None")) @@ ("-C" :> Flag) @@ ("-e" :> Valued("1"))
    @@ ("-ep" :> Valued("None")) @@ ("-s" :> Flag) @@ ("-lodos" :> Flag)
    @@ ("-T" :> Valued("37")) @@ ("-4" :> Flag) @@ ("-d" :> Mixed("2"))
    @@ ("-noGU" :> Flag) @@ ("-noCloseGU" :> Flag) @@ ("-P" :> Valued("None"))
    @@ ("-logML" :> Flag) @@ ("-nsp" :> Valued("None")) @@ ("-noLP" :> Flag)

\* RNAsubopt._synonyms
RNAsubopt_synonyms ==
    ("Temperature" :> "-T") @@ ("Temp" :> "-T") @@ ("EnergyRange" :> "-e")
    @@ ("Sort" :> "-s")

Catalog(tool) == IF tool = "RNAfold" THEN RNAfold_parameters ELSE RNAsubopt_parameters
Synonyms(tool) == IF tool = "RNAfold" THEN RNAfold_synonyms ELSE RNAsubopt_synonyms

\* RNAfold(), RNAsubopt(): the instance's own copy of the catalog, at its defaults
NewCatalogued(tool) ==
    [tool |-> tool, WorkingDir |-> <<"wd/">>,
     Parameters |-> [f \in DOMAIN Catalog(tool) |-> Catalog(tool)[f].default]]

\* Parameters.__getitem__: a synonym is redirected to its flag, any other key
\* is looked up as it is; a key that is neither raises KeyError
Parameters__getitem__(self, key) ==
    LET flag == IF key \in DOMAIN Synonyms(self.tool) THEN Synonyms(self.tool)[key]
                ELSE key
    IN IF flag \in DOMAIN self.Parameters THEN Return(flag) ELSE Raise("KeyError")

\* the keys a caller may use: the flags, the synonyms, and one that is neither
Keys(tool) == (DOMAIN Catalog(tool)) \cup (DOMAIN Synonyms(tool)) \cup {"Bogus"}

\* the values a caller may turn a parameter on with
OnValues(tool, flag) ==
    IF flag \in DOMAIN Catalog(tool) /\ Catalog(tool)[flag].kind # "Flag"
    THEN {"25", "37"} ELSE {"None"}

InitParams ==
    /\ app = NewCatalogued("RNAfold")
    /\ last = [op |-> "new", self |-> app]
    /\ frame = NoFrame

\* RNAfold(), RNAsubopt()
CataloguedConstruct ==
    \E t \in {"RNAfold", "RNAsubopt"} :
        /\ app' = NewCatalogued(t)
        /\ last' = [op |-> "new", self |-> app']
        /\ UNCHANGED frame

\* app.Parameters[key]
GetItem ==
    \E key \in Keys(app.tool) :
        /\ last' = [op |-> "getitem", self |-> app, key |-> key,
                    ret |-> Parameters__getitem__(app, key)]
        /\ UNCHANGED <<app, frame>>

\* app.Parameters[synonym].on(value)
SynonymOn ==
    \E key \in DOMAIN Synonyms(app.tool) :
        LET r == Parameters__getitem__(app, key) IN
        \E v \in OnValues(app.tool, IF r.ok THEN r.val ELSE key) :
            /\ app' = IF r.ok THEN [app EXCEPT !.Parameters[r.val] = On(v)] ELSE app
            /\ last' = [op |-> "on", self |-> app, key |-> key, ret |-> r]
            /\ UNCHANGED frame

\* app.Parameters[synonym].off()
SynonymOff ==
    \E key \in DOMAIN Synonyms(app.tool) :
        LET r == Parameters__getitem__(app, key) IN
        /\ app' = IF r.ok THEN [app EXCEPT !.Parameters[r.val] = Off] ELSE app
        /\ last' = [op |-> "off", self |-> app, key |-> key, ret |-> r]
        /\ UNCHANGED frame

NextParams ==
    \/ CataloguedConstruct
    \/ GetItem
    \/ SynonymOn
    \/ SynonymOff

SpecParams == InitParams /\ [][NextParams]_vars

----------------------------------------------------------------------------
(* What the claims speak of *)

\* the call whose return value `last` holds
Resolved(tool) == last.op = "_get_result_paths" /\ last.self.tool = tool

\* positions of the records that start with '>', and of the others
CountNamed(data) == Cardinality({i \in DOMAIN data : Len(data[i]) > 0 /\ data[i][1] = ">"})
CountAnonymous(data) == Len(data) - CountNamed(data)

EndsWith(s, atom) == Len(s) > 0 /\ s[Len(s)] = atom

\* the keys of a mapping that end in a suffix
KeysEnding(d, suffix) == {k \in DOMAIN d : EndsWith(k, suffix)}

\* the names the named records of data declare
DeclaredNames(data) ==
    {strip(data[i], {">", "\n"}) : i \in {j \in DOMAIN data : startswith(data[j], ">")}}

\* C1 (as claimed): RNAfold tags the default 'SS' entry (rna.ps) written
\* exactly when the anonymous records outnumber the named ones, and RNAplot
\* registers the default 'SS' entry (rna<ext>, written) exactly when half the
\* anonymous records, rounded down, outnumber the named ones.
C1_DefaultGroup ==
    /\ Resolved("RNAfold") =>
          /\ last.ret.ok
          /\ <<"SS">> \in DOMAIN last.ret.val
          /\ last.ret.val[<<"SS">>].IsWritten
                = (CountAnonymous(last.data) > CountNamed(last.data))
          /\ EndsWith(last.ret.val[<<"SS">>].Path, ".ps")
    /\ Resolved("RNAplot") =>
          /\ last.ret.ok
          /\ (<<"SS">> \in DOMAIN last.ret.val)
                = ((CountAnonymous(last.data) \div 2) > CountNamed(last.data))
          /\ <<"SS">> \in DOMAIN last.ret.val => last.ret.val[<<"SS">>].IsWritten

C3_OutputExtension ==
    Resolved("RNAplot") =>
        LET o == last.self.Parameters["-o"] IN
        /\ ~isOn(o) =>
              /\ last.ret.ok
              /\ \A k \in DOMAIN last.ret.val : EndsWith(last.ret.val[k].Path, ".ps")
        /\ isOn(o) /\ o.Value \in DOMAIN FILETYPE_TO_EXTENSION =>
              /\ last.ret.ok
              /\ \A k \in DOMAIN last.ret.val :
                    EndsWith(last.ret.val[k].Path, FILETYPE_TO_EXTENSION[o.Value])

\* C4: with '-o' on and a value that is no keyword of the table, RNAplot's
\* resolution raises and returns no mapping; it never answers with '.ps'.
C4_UnknownFormatFails ==
    Resolved("RNAplot")
      /\ isOn(last.self.Parameters["-o"])
      /\ last.self.Parameters["-o"].Value \notin DOMAIN FILETYPE_TO_EXTENSION
    => /\ ~last.ret.ok
       /\ last.ret.exc \in {"KeyError", "NameError"}

\* '-o pdf' on data that declares a name and would earn a default entry
C4_Witness ==
    /\ Resolved("RNAplot")
    /\ isOn(last.self.Parameters["-o"])
    /\ last.self.Parameters["-o"].Value = "pdf"
    /\ CountNamed(last.data) = 1
    /\ ~last.ret.ok

\* C5: in RNAfold's mapping every '<name>_dp' entry is tagged written exactly
\* when '-p' is on, 'DP' is tagged written exactly when '-p' is on and the
\* anonymous records outnumber the named ones, and every '<name>_ss' entry
\* is tagged written whatever '-p' is; each named record has both entries.
C5_DotPlotTagging ==
    Resolved("RNAfold") =>
        LET p == isOn(last.self.Parameters["-p"])
            d == last.ret.val
        IN /\ last.ret.ok
           /\ \A k \in KeysEnding(d, "_dp") : d[k].IsWritten = p
           /\ \A k \in KeysEnding(d, "_ss") : d[k].IsWritten
           /\ d[<<"DP">>].IsWritten
                = (p /\ CountAnonymous(last.data) > CountNamed(last.data))
           /\ CountNamed(last.data) > 0 =>
                 KeysEnding(d, "_dp") # {} /\ KeysEnding(d, "_ss") # {}
           /\ ~p => \A k \in KeysEnding(d, "_dp") \cup {<<"DP">>} : ~d[k].IsWritten

\* '-p' off, ['>a', 'a']: 'a_dp' is registered and not tagged written
C5_Witness ==
    /\ Resolved("RNAfold")
    /\ ~isOn(last.self.Parameters["-p"])
    /\ last.data = << <<">", "a">>, <<"a">> >>
    /\ <<"a", "_dp">> \in DOMAIN last.ret.val
    /\ ~last.ret.val[<<"a", "_dp">>].IsWritten
    /\ last.ret.val[<<"a", "_ss">>].IsWritten

\* the name n of a record '>' + n or '>' + n + "\n"
BareName(item) ==
    IF EndsWith(item, "\n") THEN SubSeq(item, 2, Len(item) - 1) ELSE Tail(item)

\* C8 (as claimed): a record '>' + n, with or without a closing newline,
\* makes RNAfold and RNAplot register the key n + '_ss' with a path built
\* from exactly n.
C8_NameExtraction ==
    \A tool \in {"RNAfold", "RNAplot"} :
        Resolved(tool) =>
            \A i \in DOMAIN last.data :
                startswith(last.data[i], ">") =>
                    LET n == BareName(last.data[i]) IN
                    /\ last.ret.ok
                    /\ n \o <<"_ss">> \in DOMAIN last.ret.val
                    /\ SubSeq(last.ret.val[n \o <<"_ss">>].Path, 1, 1 + Len(n) + 1)
                          = last.self.WorkingDir \o n \o <<"_ss">>

\* an adapter call on a Covet that wrote the records of a list to a temp file
WroteLines ==
    /\ last.op \in {"_input_as_lines", "__call__"}
    /\ last.self.tool = "Covet"
    /\ last.data.kind = "list"
    /\ last.file.name # None

\* a record, closed by a newline if it has none
Terminated(r) == IF EndsWith(r, "\n") THEN r ELSE r \o <<"\n">>

\* C6 (as claimed): for every list of records, reading the temp file back
\* line by line yields the input: as many lines, in the same order, each the
\* record closed by a newline.
C6_RoundTripAsClaimed ==
    WroteLines =>
        LET lines == readlines(last.file.text, << >>) IN
        /\ Len(lines) = Len(last.data.v)
        /\ \A i \in DOMAIN lines : lines[i] = Terminated(last.data.v[i])

\* a newline of r that is neither leading nor trailing
InnerNewline(r) ==
    \E i \in DOMAIN strip(r, {"\n"}) : strip(r, {"\n"})[i] = "\n"

\* C6 (amended): for every non-empty list of records whose newlines are all
\* leading or trailing, the temp file holds one line per record, in order,
\* each the record without its leading and trailing newlines, closed by one
\* newline, the last line too; for the empty list it holds one empty line.
C6_RoundTripAmended ==
    WroteLines =>
        LET lines == readlines(last.file.text, << >>) IN
        /\ last.data.v = << >> => last.file.text = <<"\n">>
        /\ last.data.v # << >> /\ (\A i \in DOMAIN last.data.v : ~InnerNewline(last.data.v[i])) =>
              /\ Len(lines) = Len(last.data.v)
              /\ \A i \in DOMAIN lines :
                    lines[i] = strip(last.data.v[i], {"\n"}) \o <<"\n">>
              /\ EndsWith(last.file.text, "\n")

\* ['aa', 'a']: the last record has no newline of its own, the file closes it
C6_Witness ==
    /\ WroteLines
    /\ last.data.v = << <<"a", "a">>, <<"a">> >>
    /\ last.file.text = <<"a", "a", "\n", "a", "\n">>

\* C7 (as claimed): for each of Covet, Coves, Covee, Covea, _input_as_string
\* on a file name and _input_as_lines on a list of records return the
\* companion '<input file>.cm', a separator, and the input file, in that order.
C7_CompanionFirst ==
    /\ last.op = "_input_as_string" /\ last.data.kind = "str" =>
          /\ last.ret.ok
          /\ last.ret.val = last.data.v \o <<".cm">> \o <<" ">> \o last.data.v
    /\ last.op = "_input_as_lines" /\ last.data.kind = "list" =>
          /\ last.ret.ok
          /\ last.file.name # None
          /\ last.ret.val = last.file.name \o <<".cm">> \o <<" ">> \o last.file.name

\* C9: when a Covet is called with a list and the paths are resolved, the
\* temp file of this call is recorded in _input_filename, result['cm'] is the
\* companion path the adapter put on the command line, and the temp file is
\* under '_input_filename'; for a string, result['cm'] is data + '.cm'.
C9_CompanionTracking ==
    last.op = "__call__" /\ last.resolved =>
        /\ last.data.kind = "list" =>
              /\ last.at._input_filename # None
              /\ last.at._input_filename = last.file.name
              /\ last.ret.ok
              /\ last.ret.val[<<"cm">>].Path = last.file.name \o <<".cm">>
              /\ last.input_arg.val
                    = last.ret.val[<<"cm">>].Path \o <<" ">> \o last.file.name
              /\ <<"_input_filename">> \in DOMAIN last.ret.val
              /\ last.ret.val[<<"_input_filename">>].Path = last.file.name
        /\ last.data.kind = "str" =>
              /\ last.ret.ok
              /\ last.ret.val[<<"cm">>].Path = last.data.v \o <<".cm">>

\* a second call on a list: the instance still names the temp file of the
\* first, and the paths resolved are those of the second
C9_Witness ==
    /\ last.op = "__call__"
    /\ last.resolved
    /\ last.data.kind = "list"
    /\ Len(last.data.v) > 0
    /\ last.self._input_filename = <<"wd/", "tmp1">>
    /\ last.file.name = <<"wd/", "tmp2">>
    /\ last.ret.ok
    /\ last.ret.val[<<"cm">>].Path = <<"wd/", "tmp2", ".cm">>

\* C10: get_constrained_fold raises ValueError on an empty sequence, an empty
\* constraint string or two lengths that differ, and plot_from_seq_and_struct
\* raises DataError on two lengths that differ; the helper goes no further:
\* no application is constructed, no process spawned, no temp file written.
C10_ValidationFirst ==
    /\ frame.fn = "get_constrained_fold" /\ frame.pc # "111"
         /\ (\/ Len(frame.args.sequence) = 0
             \/ Len(frame.args.constraint_string) = 0
             \/ Len(frame.args.sequence) # Len(frame.args.constraint_string))
       => /\ frame.pc = "raised"
          /\ frame.exc = "ValueError"
          /\ frame.constructed = 0 /\ frame.spawned = 0 /\ frame.tmpfiles = 0
          /\ frame.app = NoApp
    /\ frame.fn = "plot_from_seq_and_struct" /\ frame.pc # "312"
         /\ Len(frame.args.seq) # Len(frame.args.struct)
       => /\ frame.pc = "raised"
          /\ frame.exc = "DataError"
          /\ frame.constructed = 0 /\ frame.spawned = 0 /\ frame.tmpfiles = 0
          /\ frame.app = NoApp

\* a sequence and a constraint string, neither empty, of different lengths
C10_Witness ==
    /\ frame.fn = "get_constrained_fold"
    /\ frame.args.sequence = <<"a", "a">>
    /\ frame.args.constraint_string = <<".">>
    /\ frame.pc = "raised"
    /\ frame.exc = "ValueError"
    /\ frame.spawned = 0

\* C11 (as claimed): in both helpers, once the application was invoked and a
\* result object produced, res.cleanUp() is called exactly once, after the
\* output was consumed and before control leaves the helper, by return or by
\* an exception raised while parsing or looking up the output.
C11_ReleaseBeforeLeaving ==
    frame.fn # "None" =>
        /\ frame.cleaned <= 1
        /\ frame.cleaned = 1 => frame.pc \in {"130", "324", "returned"}
        /\ frame.pc \in {"returned", "raised"} /\ frame.res.ok => frame.cleaned = 1

\* the instance is of a tool that has a synonym table
Catalogued == app.tool \in {"RNAfold", "RNAsubopt"} /\ "-T" \in DOMAIN app.Parameters

\* C12 (as claimed): every synonym of RNAfold and of RNAsubopt maps to a key
\* of the same class's _parameters, and no two synonyms of one tool map to
\* the same flag.
C12_OneToOne ==
    Catalogued =>
        LET syn == Synonyms(app.tool) IN
        /\ \A k \in DOMAIN syn : syn[k] \in DOMAIN Catalog(app.tool)
        /\ \A k1, k2 \in DOMAIN syn : k1 # k2 => syn[k1] # syn[k2]

\* C12 (amended): every synonym of RNAfold and of RNAsubopt maps to exactly
\* one flag, a key of the same class's _parameters, so that a lookup by a
\* synonym never fails and reaches the parameter of that flag; two synonyms
\* may map to one flag, as 'Temperature' and 'Temp' both map to '-T'.
C12_SynonymsIntoCatalog ==
    Catalogued =>
        LET syn == Synonyms(app.tool) IN
        /\ \A k \in DOMAIN syn : syn[k] \in DOMAIN Catalog(app.tool)
        /\ syn["Temperature"] = "-T" /\ syn["Temp"] = "-T"
        /\ last.op \in {"getitem", "on", "off"} /\ last.key \in DOMAIN syn =>
              /\ last.ret.ok
              /\ last.ret.val \in DOMAIN app.Parameters
              /\ last.ret.val = syn[last.key]
        /\ last.op = "on" => isOn(app.Parameters[last.ret.val])
        /\ last.op = "off" => ~isOn(app.Parameters[last.ret.val])

\* '-T' turned off through one of its synonyms, then looked up through the other
C12_Witness ==
    /\ Catalogued
    /\ last.op = "getitem"
    /\ last.key = "Temp"
    /\ last.ret.ok
    /\ last.ret.val = "-T"
    /\ ~isOn(app.Parameters["-T"])

====
